---- MODULE Spec2Model ----
(***************************************************************************)
(* file-read-backwards: a reader that yields the lines of a file from the  *)
(* last one to the first one.                                              *)
(*                                                                         *)
(* FileReadBackwards (the owner) validates the encoding, spawns iterators  *)
(* and keeps weak references to the file handlers it opened.               *)
(* FileReadBackwardsIterator holds one file handler and one                *)
(* BufferWorkSpace.  buffer_work_space.py is not among the source files:   *)
(* the buffer operations are modelled from section 4.1 of the              *)
(* specification.                                                          *)
(*                                                                         *)
(* Bytes and code points are integers, byte strings and texts are          *)
(* sequences of them, encoding names are sequences of character codes.     *)
(***************************************************************************)
EXTENDS Integers, Sequences, FiniteSets, TLC

(***************************************************************************)
(* Bounds of the model.                                                    *)
(***************************************************************************)
\* longest file content
MaxLen == 4
\* largest chunk_size passed to the constructor
MaxChunk == 4
\* longest file content, and largest chunk_size, when one owner spawns several
\* iterators
MaxShared == 2
MaxSharedChunk == 2
\* number of iterators one owner spawns
MaxIters == 2
\* longest file content, and largest chunk_size, when the traversal is checked to
\* come to its end
MaxRepeat == 3
MaxRepeatChunk == 2

(***************************************************************************)
(* Bytes of the file contents: "a", LF, CR, and the two bytes of the       *)
(* UTF-8 form of U+00E9 (0xC3 0xA9), each of which is a letter in latin-1  *)
(* and malformed in ascii.                                                 *)
(***************************************************************************)
LF == 10
CR == 13
Alphabet == {97, LF, CR, 195, 169}

RECURSIVE SeqsUpTo(_, _)
SeqsUpTo(S, n) ==
    IF n = 0 THEN {<<>>}
    ELSE LET shorter == SeqsUpTo(S, n - 1)
         IN  shorter \cup {Append(s, x) : s \in {t \in shorter : Len(t) = n - 1}, x \in S}

Files == SeqsUpTo(Alphabet, MaxLen)

\* the files several iterators of one owner read together
SharedFiles == SeqsUpTo({97, LF}, MaxShared)

Reverse(s) == [k \in 1..Len(s) |-> s[Len(s) + 1 - k]]

(***************************************************************************)
(* Encoding names.                                                         *)
(***************************************************************************)
\* "utf-8", "ascii", "latin-1"
utf_8 == <<117, 116, 102, 45, 56>>
ascii == <<97, 115, 99, 105, 105>>
latin_1 == <<108, 97, 116, 105, 110, 45, 49>>
supported_encodings == <<utf_8, ascii, latin_1>>

\* the names the constructor is called with: the supported ones, "UTF-8",
\* "Latin-1", and "ebcdic", which Python knows no codec for
EncodingArgs ==
    {utf_8, ascii, latin_1,
     <<85, 84, 70, 45, 56>>,
     <<76, 97, 116, 105, 110, 45, 49>>,
     <<101, 98, 99, 100, 105, 99>>}

\* str.lower() on an ASCII name
lower(name) == [k \in 1..Len(name) |->
                  IF name[k] >= 65 /\ name[k] <= 90 THEN name[k] + 32 ELSE name[k]]

Range(s) == {s[k] : k \in 1..Len(s)}

(***************************************************************************)
(* bytes.decode(encoding): a text, or the error it raises.                 *)
(***************************************************************************)
Line(text) == [kind |-> "line", text |-> text]
UnicodeDecodeError == [kind |-> "UnicodeDecodeError", text |-> <<>>]
LookupError == [kind |-> "LookupError", text |-> <<>>]

\* UTF-8, one- and two-byte forms; every other byte is malformed where it stands
RECURSIVE decode_utf_8(_, _, _)
decode_utf_8(b, k, acc) ==
    IF k > Len(b) THEN Line(acc)
    ELSE IF b[k] < 128 THEN decode_utf_8(b, k + 1, Append(acc, b[k]))
    ELSE IF /\ b[k] >= 194 /\ b[k] <= 223
            /\ k < Len(b)
            /\ b[k + 1] >= 128 /\ b[k + 1] <= 191
         THEN decode_utf_8(b, k + 2,
                           Append(acc, (b[k] % 32) * 64 + (b[k + 1] % 64)))
    ELSE UnicodeDecodeError

decode(b, encoding) ==
    IF encoding = utf_8 THEN decode_utf_8(b, 1, <<>>)
    ELSE IF encoding = ascii
         THEN IF \A k \in 1..Len(b) : b[k] < 128 THEN Line(b) ELSE UnicodeDecodeError
    ELSE IF encoding = latin_1 THEN Line(b)
    ELSE LookupError

(***************************************************************************)
(* BufferWorkSpace (section 4.1 of the specification).                     *)
(***************************************************************************)
new_lines_bytes == <<(<<CR, LF>>), (<<LF>>), (<<CR>>)>>

EndsWith(b, n) ==
    /\ Len(b) >= Len(n)
    /\ SubSeq(b, Len(b) - Len(n) + 1, Len(b)) = n

\* the buffer without the one separator it ends with, if it ends with one
remove_trailing_new_line(b) ==
    IF EndsWith(b, new_lines_bytes[1]) THEN SubSeq(b, 1, Len(b) - 2)
    ELSE IF EndsWith(b, new_lines_bytes[2]) \/ EndsWith(b, new_lines_bytes[3])
         THEN SubSeq(b, 1, Len(b) - 1)
    ELSE b

\* index of the last separator byte, 0 when there is none
find_furthest_new_line(t) ==
    LET at == {k \in 1..Len(t) : t[k] \in {LF, CR}}
    IN  IF at = {} THEN 0 ELSE CHOOSE k \in at : \A j \in at : j <= k

has_yieldable_line(buf, cursor) ==
    \/ find_furthest_new_line(remove_trailing_new_line(buf)) > 0
    \/ cursor = 0

\* faulty variant of pull_next_chunk: chunk_size bytes are asked for, however
\* few are left before the cursor
pull_whole_chunk(content, buf, cursor, chunk_size) ==
    LET from == IF cursor - chunk_size < 0 THEN 1 ELSE cursor - chunk_size + 1
    IN  <<SubSeq(content, from, cursor) \o buf, cursor - chunk_size>>

\* <<pending buffer, cursor>> after one chunk pull; the file is not changed
\* while it is read, so that the read gives the bytes asked for
pull_next_chunk(content, buf, cursor, chunk_size) ==
    LET read_size == IF chunk_size < cursor THEN chunk_size ELSE cursor
    IN  IF read_size = 0 THEN <<buf, cursor>>
        ELSE <<SubSeq(content, cursor - read_size + 1, cursor) \o buf,
               cursor - read_size>>

RECURSIVE read_until_yieldable(_, _, _, _)
read_until_yieldable(content, buf, cursor, chunk_size) ==
    IF has_yieldable_line(buf, cursor) THEN <<buf, cursor>>
    ELSE LET p == pull_next_chunk(content, buf, cursor, chunk_size)
         IN  read_until_yieldable(content, p[1], p[2], chunk_size)

\* <<the line, the pending buffer that remains>>
return_line(buf) ==
    LET t == remove_trailing_new_line(buf)
        i == find_furthest_new_line(t)
    IN  IF i > 0 THEN <<SubSeq(t, i + 1, Len(t)), SubSeq(t, 1, i)>>
        ELSE <<t, <<>>>>

has_returned_every_line(buf, cursor) == buf = <<>> /\ cursor = 0

(***************************************************************************)
(* State.                                                                  *)
(***************************************************************************)
VARIABLES
    file,           \* the bytes stored at path
    constructed,    \* "no", "yes", or "NotImplementedError"
    encoding,       \* FileReadBackwards.encoding
    chunk_size,     \* FileReadBackwards.chunk_size
    fp_refs,        \* FileReadBackwards.__fp_refs: the handlers referred to
    fp,             \* each file handler: "unopened", "open", "closed", "collected"
    read_position,  \* each iterator's buffer: the file cursor
    read_buffer,    \* each iterator's buffer: the pending bytes
    out,            \* each iterator: what its next() calls returned or raised, in order
    last            \* each iterator: the latest call on it or on its handler

vars == <<file, constructed, encoding, chunk_size, fp_refs, fp,
          read_position, read_buffer, out, last>>

Iters == 1..MaxIters

\* the latest call: next() and what it returned or raised ("line",
\* "UnicodeDecodeError", "LookupError", "StopIteration"), or close() and the
\* owner's close() ("owner") and the status they found the handler in
Call(op, result) == [op |-> op, result |-> result]
NoCall == Call("none", "none")

\* before the constructor is called, for a given content of the file
Fresh(content) ==
    /\ file = content
    /\ constructed = "no"
    /\ encoding = <<>>
    /\ chunk_size = 0
    /\ fp_refs = <<>>
    /\ fp = [i \in Iters |-> "unopened"]
    /\ read_position = [i \in Iters |-> 0]
    /\ read_buffer = [i \in Iters |-> <<>>]
    /\ out = [i \in Iters |-> <<>>]
    /\ last = [i \in Iters |-> NoCall]

Init == \E content \in SharedFiles : Fresh(content)

\* one traversal of every file
InitLines == \E content \in Files : Fresh(content)

\* one traversal, to its end, of every file of up to MaxRepeat bytes
InitRepeat == \E content \in SeqsUpTo(Alphabet, MaxRepeat) : Fresh(content)

(***************************************************************************)
(* FileReadBackwards.                                                      *)
(***************************************************************************)
\* faulty variant of is_supported: a constructor without the check
accepts_any(name) == TRUE

\* the check of the constructor
is_supported(name) == lower(name) \in Range(supported_encodings)

FileReadBackwards_init(name, size) ==
    /\ constructed = "no"
    /\ IF ~is_supported(name)
       THEN /\ constructed' = "NotImplementedError"
            /\ UNCHANGED <<encoding, chunk_size, fp_refs>>
       ELSE /\ constructed' = "yes"
            /\ encoding' = lower(name)
            /\ chunk_size' = size
            /\ fp_refs' = <<>>
    /\ UNCHANGED <<file, fp, read_position, read_buffer, out, last>>

\* faulty variant of __iter__: an owner that was closed gives iterators whose
\* handler is closed
iter_closed_after_close ==
    /\ constructed = "yes"
    /\ \E i \in Iters :
        /\ fp[i] = "unopened"
        /\ \A j \in Iters : j < i => fp[j] # "unopened"
        /\ fp' = [fp EXCEPT ![i] = IF \E j \in Iters : last[j].op = "owner"
                                   THEN "closed" ELSE "open"]
        /\ fp_refs' = Append(fp_refs, i)
        /\ read_position' = [read_position EXCEPT ![i] = Len(file)]
        /\ read_buffer' = [read_buffer EXCEPT ![i] = <<>>]
    /\ UNCHANGED <<file, constructed, encoding, chunk_size, out, last>>

\* io.open, weakref.ref(fp), FileReadBackwardsIterator(fp, ...), BufferWorkSpace(fp, ...)
FileReadBackwards_iter ==
    /\ constructed = "yes"
    /\ \E i \in Iters :
        /\ fp[i] = "unopened"
        /\ \A j \in Iters : j < i => fp[j] # "unopened"
        /\ fp' = [fp EXCEPT ![i] = "open"]
        /\ fp_refs' = Append(fp_refs, i)
        /\ read_position' = [read_position EXCEPT ![i] = Len(file)]
        /\ read_buffer' = [read_buffer EXCEPT ![i] = <<>>]
    /\ UNCHANGED <<file, constructed, encoding, chunk_size, out, last>>

\* fp.close(): no effect on a handler that is closed already
fp_close(status) == IF status = "open" THEN "closed" ELSE status

\* faulty variant of is_alive: close() without "if fp is not None"
never_collected(i) == TRUE

\* fp_ref(): the handler, unless it was collected
is_alive(i) == fp[i] # "collected"

\* the handlers FileReadBackwards.close closes
closed_by_close == {i \in Range(fp_refs) : is_alive(i)}

FileReadBackwards_close ==
    /\ constructed = "yes"
    /\ fp' = [i \in Iters |-> IF i \in closed_by_close THEN fp_close(fp[i]) ELSE fp[i]]
    /\ last' = [i \in Iters |-> IF i \in closed_by_close THEN Call("owner", fp[i])
                                ELSE last[i]]
    /\ fp_refs' = SelectSeq(fp_refs, is_alive)
    /\ UNCHANGED <<file, constructed, encoding, chunk_size,
                   read_position, read_buffer, out>>

\* leaving the context manager
FileReadBackwards_exit ==
    /\ constructed = "yes"
    /\ FileReadBackwards_close

(***************************************************************************)
(* FileReadBackwardsIterator.                                              *)
(***************************************************************************)
\* the iterators the caller holds
held(i) == fp[i] \in {"open", "closed"}

\* faulty variant of closed: the property as its docstring words it, true while
\* the handler is opened
closed_when_opened(i) == fp[i] = "open"

\* the closed property
closed(i) == fp[i] # "open"

\* faulty variant of close(): it also drops what the buffer holds
close_and_reset(i) ==
    /\ held(i)
    /\ fp' = [fp EXCEPT ![i] = fp_close(fp[i])]
    /\ read_position' = [read_position EXCEPT ![i] = 0]
    /\ read_buffer' = [read_buffer EXCEPT ![i] = <<>>]
    /\ last' = [last EXCEPT ![i] = Call("close", fp[i])]
    /\ UNCHANGED <<file, constructed, encoding, chunk_size, fp_refs, out>>

\* faulty variant of close(): the iterators of one owner share one handler, as
\* they would if __iter__ opened the file once
close_shared_handler(i) ==
    /\ held(i)
    /\ fp' = [j \in Iters |-> IF held(j) THEN fp_close(fp[j]) ELSE fp[j]]
    /\ last' = [last EXCEPT ![i] = Call("close", fp[i])]
    /\ UNCHANGED <<file, constructed, encoding, chunk_size, fp_refs,
                   read_position, read_buffer, out>>

\* the iterator's close()
FileReadBackwardsIterator_close(i) ==
    /\ held(i)
    /\ fp' = [fp EXCEPT ![i] = fp_close(fp[i])]
    /\ last' = [last EXCEPT ![i] = Call("close", fp[i])]
    /\ UNCHANGED <<file, constructed, encoding, chunk_size, fp_refs,
                   read_position, read_buffer, out>>

\* faulty variant of stop_when_closed: next() without "if self.closed"
ignore_closed(i) == FALSE

\* next(): "if self.closed"
stop_when_closed(i) == closed(i)

\* faulty variant of end_of_lines: next() without the test of the end
never_at_end(i) == FALSE

\* next(): "if self.__buf.has_returned_every_line()"
end_of_lines(i) == has_returned_every_line(read_buffer[i], read_position[i])

\* faulty variant of closed_at_end: the end signalled without self.close()
left_open(status) == status

\* next(): "self.close()" before the StopIteration of the end of the lines
closed_at_end(status) == fp_close(status)

Taken(bytes, buf, cursor) == [line |-> bytes, buf |-> buf, cursor |-> cursor]

\* faulty variant of taken: return_line() without read_until_yieldable()
taken_without_reading(i) ==
    LET r == return_line(read_buffer[i])
    IN  Taken(r[1], r[2], read_position[i])

\* faulty variant of taken: empty lines are passed over
RECURSIVE next_nonblank(_, _)
next_nonblank(buf, cursor) ==
    LET y == read_until_yieldable(file, buf, cursor, chunk_size)
        r == return_line(y[1])
    IN  IF r[1] = <<>> /\ ~has_returned_every_line(r[2], y[2])
        THEN next_nonblank(r[2], y[2])
        ELSE Taken(r[1], r[2], y[2])

taken_skipping_blank(i) == next_nonblank(read_buffer[i], read_position[i])

\* faulty variant of taken: the line is returned with the separator that ends it
taken_with_new_line(i) ==
    LET y == read_until_yieldable(file, read_buffer[i], read_position[i], chunk_size)
        r == return_line(y[1])
    IN  Taken(SubSeq(y[1], Len(r[2]) + 1, Len(y[1])), r[2], y[2])

\* faulty variant of taken: the line is returned and stays in the pending buffer
taken_and_kept(i) ==
    LET y == read_until_yieldable(file, read_buffer[i], read_position[i], chunk_size)
        r == return_line(y[1])
    IN  Taken(r[1], y[1], y[2])

\* next(): read_until_yieldable() and return_line(); the iterator was made with
\* the owner's chunk_size
taken(i) ==
    LET y == read_until_yieldable(file, read_buffer[i], read_position[i], chunk_size)
        r == return_line(y[1])
    IN  Taken(r[1], r[2], y[2])

\* faulty variant of decoded: the encoding of the owner is not used
decoded_as_latin_1(bytes) == decode(bytes, latin_1)

\* faulty variant of decoded: decode(encoding, errors="ignore"), the bytes that
\* do not decode are dropped
decoded_ignoring_errors(bytes) ==
    LET d == decode(bytes, encoding)
        plain(byte) == byte < 128
    IN  IF d.kind = "UnicodeDecodeError" THEN Line(SelectSeq(bytes, plain)) ELSE d

\* next(): "r.decode(self.encoding)"; the iterator was made with the owner's encoding
decoded(bytes) == decode(bytes, encoding)

\* faulty variant of next(): a line that does not decode stays in the buffer
next_keeping_failed_line(i) ==
    /\ held(i)
    /\ IF stop_when_closed(i)
       THEN /\ last' = [last EXCEPT ![i] = Call("next", "StopIteration")]
            /\ UNCHANGED <<fp, read_position, read_buffer, out>>
       ELSE IF end_of_lines(i)
       THEN /\ fp' = [fp EXCEPT ![i] = closed_at_end(fp[i])]
            /\ last' = [last EXCEPT ![i] = Call("next", "StopIteration")]
            /\ UNCHANGED <<read_position, read_buffer, out>>
       ELSE LET t == taken(i)
                r == decoded(t.line)
            IN  /\ IF r.kind = "line"
                   THEN /\ read_position' = [read_position EXCEPT ![i] = t.cursor]
                        /\ read_buffer' = [read_buffer EXCEPT ![i] = t.buf]
                   ELSE UNCHANGED <<read_position, read_buffer>>
                /\ out' = [out EXCEPT ![i] = Append(out[i], r)]
                /\ last' = [last EXCEPT ![i] = Call("next", r.kind)]
                /\ UNCHANGED fp
    /\ UNCHANGED <<file, constructed, encoding, chunk_size, fp_refs>>

\* faulty variant of next(): the handler is closed by the call that returns the
\* last line
next_closing_with_last_line(i) ==
    /\ held(i)
    /\ IF stop_when_closed(i)
       THEN /\ last' = [last EXCEPT ![i] = Call("next", "StopIteration")]
            /\ UNCHANGED <<fp, read_position, read_buffer, out>>
       ELSE IF end_of_lines(i)
       THEN /\ fp' = [fp EXCEPT ![i] = closed_at_end(fp[i])]
            /\ last' = [last EXCEPT ![i] = Call("next", "StopIteration")]
            /\ UNCHANGED <<read_position, read_buffer, out>>
       ELSE LET t == taken(i)
                r == decoded(t.line)
            IN  /\ read_position' = [read_position EXCEPT ![i] = t.cursor]
                /\ read_buffer' = [read_buffer EXCEPT ![i] = t.buf]
                /\ out' = [out EXCEPT ![i] = Append(out[i], r)]
                /\ last' = [last EXCEPT ![i] = Call("next", r.kind)]
                /\ fp' = [fp EXCEPT ![i] =
                            IF has_returned_every_line(t.buf, t.cursor)
                            THEN fp_close(fp[i]) ELSE fp[i]]
    /\ UNCHANGED <<file, constructed, encoding, chunk_size, fp_refs>>

FileReadBackwardsIterator_next(i) ==
    /\ held(i)
    /\ IF stop_when_closed(i)
       THEN /\ last' = [last EXCEPT ![i] = Call("next", "StopIteration")]
            /\ UNCHANGED <<fp, read_position, read_buffer, out>>
       ELSE IF end_of_lines(i)
       THEN /\ fp' = [fp EXCEPT ![i] = closed_at_end(fp[i])]
            /\ last' = [last EXCEPT ![i] = Call("next", "StopIteration")]
            /\ UNCHANGED <<read_position, read_buffer, out>>
       ELSE LET t == taken(i)
                r == decoded(t.line)
            IN  /\ read_position' = [read_position EXCEPT ![i] = t.cursor]
                /\ read_buffer' = [read_buffer EXCEPT ![i] = t.buf]
                /\ out' = [out EXCEPT ![i] = Append(out[i], r)]
                /\ last' = [last EXCEPT ![i] = Call("next", r.kind)]
                /\ UNCHANGED fp
    /\ UNCHANGED <<file, constructed, encoding, chunk_size, fp_refs>>

\* the caller drops its last reference to the iterator: the handler, which only
\* the iterator and its buffer refer to strongly, is collected with them (at
\* once, as reference counting does)
Collect(i) ==
    /\ held(i)
    /\ fp' = [fp EXCEPT ![i] = "collected"]
    /\ read_position' = [read_position EXCEPT ![i] = 0]
    /\ read_buffer' = [read_buffer EXCEPT ![i] = <<>>]
    /\ out' = [out EXCEPT ![i] = <<>>]
    /\ last' = [last EXCEPT ![i] = NoCall]
    /\ UNCHANGED <<file, constructed, encoding, chunk_size, fp_refs>>

\* the calls on the owner and on the iterators but __iter__, the constructor
\* being called with a chunk_size up to largest
Calls(largest) ==
    \/ \E name \in EncodingArgs, size \in 1..largest : FileReadBackwards_init(name, size)
    \/ FileReadBackwards_close
    \/ FileReadBackwards_exit
    \/ \E i \in Iters : FileReadBackwardsIterator_next(i)
    \/ \E i \in Iters : FileReadBackwardsIterator_close(i)
    \/ \E i \in Iters : Collect(i)

Next ==
    \/ FileReadBackwards_iter
    \/ Calls(MaxSharedChunk)

\* the owner spawns one iterator
NextLines ==
    \/ fp[1] = "unopened" /\ FileReadBackwards_iter
    \/ Calls(MaxChunk)

Spec == Init /\ [][Next]_vars

SpecLines == InitLines /\ [][NextLines]_vars

(***************************************************************************)
(* One traversal taken one buffer call at a time: pull_next_chunk(), which *)
(* read_until_yieldable() calls while no line is yieldable and which is    *)
(* also called here when one is, and the return_line() of next().          *)
(***************************************************************************)
BufferWorkSpace_pull_next_chunk(i) ==
    /\ fp[i] = "open"
    /\ LET p == pull_next_chunk(file, read_buffer[i], read_position[i], chunk_size)
       IN  /\ read_buffer' = [read_buffer EXCEPT ![i] = p[1]]
           /\ read_position' = [read_position EXCEPT ![i] = p[2]]
           /\ last' = [last EXCEPT ![i] =
                         Call("pull_next_chunk",
                              IF p[2] = read_position[i] THEN "nothing read" ELSE "read")]
    /\ UNCHANGED <<file, constructed, encoding, chunk_size, fp_refs, fp, out>>

\* faulty variant of BufferWorkSpace_return_line: the line is returned and the
\* pending buffer is left as it was
return_line_unconsumed(i) ==
    /\ fp[i] = "open"
    /\ ~end_of_lines(i)
    /\ has_yieldable_line(read_buffer[i], read_position[i])
    /\ LET r == return_line(read_buffer[i])
       IN  /\ out' = [out EXCEPT ![i] = Append(out[i], decoded(r[1]))]
           /\ last' = [last EXCEPT ![i] = Call("return_line", decoded(r[1]).kind)]
    /\ UNCHANGED <<file, constructed, encoding, chunk_size, fp_refs, fp,
                   read_position, read_buffer>>

\* next(), once has_returned_every_line() was false and a line is yieldable:
\* return_line() and the decoding of its result
BufferWorkSpace_return_line(i) ==
    /\ fp[i] = "open"
    /\ ~end_of_lines(i)
    /\ has_yieldable_line(read_buffer[i], read_position[i])
    /\ LET r == return_line(read_buffer[i])
       IN  /\ read_buffer' = [read_buffer EXCEPT ![i] = r[2]]
           /\ out' = [out EXCEPT ![i] = Append(out[i], decoded(r[1]))]
           /\ last' = [last EXCEPT ![i] = Call("return_line", decoded(r[1]).kind)]
    /\ UNCHANGED <<file, constructed, encoding, chunk_size, fp_refs, fp, read_position>>

NextBuffer ==
    \/ \E name \in EncodingArgs, size \in 1..MaxChunk : FileReadBackwards_init(name, size)
    \/ fp[1] = "unopened" /\ FileReadBackwards_iter
    \/ BufferWorkSpace_pull_next_chunk(1)
    \/ BufferWorkSpace_return_line(1)

SpecBuffer == InitLines /\ [][NextBuffer]_vars

(***************************************************************************)
(* One caller that calls next() again and again on its one iterator.  A    *)
(* call is seen whole, or one step at a time: a turn of the loop of        *)
(* read_until_yieldable(), the return_line() that follows it, the          *)
(* StopIteration.  The code is synchronous and has one thread: a call that *)
(* was started runs to its end and a loop that can take a turn takes it,   *)
(* which is the weak fairness of the steps.                                *)
(***************************************************************************)
\* one turn of the loop of read_until_yieldable()
read_until_yieldable_pull(i) ==
    /\ ~has_yieldable_line(read_buffer[i], read_position[i])
    /\ BufferWorkSpace_pull_next_chunk(i)

\* a next() that raises StopIteration: the handler is closed, or every line was
\* returned
next_StopIteration(i) ==
    /\ stop_when_closed(i) \/ end_of_lines(i)
    /\ FileReadBackwardsIterator_next(i)

NextRepeat ==
    \/ \E name \in EncodingArgs, size \in 1..MaxRepeatChunk :
          FileReadBackwards_init(name, size)
    \/ fp[1] = "unopened" /\ FileReadBackwards_iter
    \/ FileReadBackwardsIterator_next(1)
    \/ read_until_yieldable_pull(1)
    \/ BufferWorkSpace_return_line(1)
    \/ next_StopIteration(1)

SpecRepeat ==
    /\ InitRepeat
    /\ [][NextRepeat]_vars
    /\ WF_vars(read_until_yieldable_pull(1))
    /\ WF_vars(BufferWorkSpace_return_line(1))
    /\ WF_vars(next_StopIteration(1))

(***************************************************************************)
(* The lines of a file, read forwards: what bytes.splitlines() gives for   *)
(* the separators "\n", "\r" and "\r\n".                                   *)
(***************************************************************************)
RECURSIVE split_from(_, _, _, _)
split_from(b, k, line, lines) ==
    IF k > Len(b) THEN IF line = <<>> THEN lines ELSE Append(lines, line)
    ELSE IF b[k] = CR /\ k < Len(b) /\ b[k + 1] = LF
         THEN split_from(b, k + 2, <<>>, Append(lines, line))
    ELSE IF b[k] \in {CR, LF} THEN split_from(b, k + 1, <<>>, Append(lines, line))
    ELSE split_from(b, k + 1, Append(line, b[k]), lines)

splitlines(b) == split_from(b, 1, <<>>, <<>>)

\* the lines of the file, decoded one by one, the last line first
ReversedLines ==
    LET lines == splitlines(file)
    IN  Reverse([k \in 1..Len(lines) |-> decode(lines[k], encoding)])

IsPrefix(s, t) == Len(s) <= Len(t) /\ SubSeq(t, 1, Len(s)) = s

\* nothing is left to read or to return
drained(i) == read_buffer[i] = <<>> /\ read_position[i] = 0

Stopped == Call("next", "StopIteration")

(***************************************************************************)
(* C1: whatever the chunk size, the lines next() returns are the lines of  *)
(* the file from the last one to the first one: at any point of a          *)
(* traversal what was returned so far is the beginning of that sequence,   *)
(* and it is the whole of it once nothing is left, which is when next()    *)
(* signals the end.  A line that does not decode counts as its error.      *)
(***************************************************************************)
C1_ReversedLines ==
    \A i \in Iters : held(i) =>
        /\ IsPrefix(out[i], ReversedLines)
        /\ drained(i) => out[i] = ReversedLines

\* "a\r\na" read to its end two bytes at a time, "\r" and "\n" in two chunks
C1_Witness ==
    /\ held(1) /\ drained(1) /\ last[1] = Stopped
    /\ file = <<97, CR, LF, 97>> /\ chunk_size = 2
    /\ out[1] = <<Line(<<97>>), Line(<<97>>)>>

(***************************************************************************)
(* The separators of a file, read forwards, "\r\n" being one separator.    *)
(***************************************************************************)
RECURSIVE separators_from(_, _, _)
separators_from(b, k, seps) ==
    IF k > Len(b) THEN seps
    ELSE IF b[k] = CR /\ k < Len(b) /\ b[k + 1] = LF
         THEN separators_from(b, k + 2, Append(seps, [at |-> k, bytes |-> <<CR, LF>>]))
    ELSE IF b[k] \in {CR, LF}
         THEN separators_from(b, k + 1, Append(seps, [at |-> k, bytes |-> <<b[k]>>]))
    ELSE separators_from(b, k + 1, seps)

\* each separator: where it starts and its bytes
Separators == separators_from(file, 1, <<>>)

EndsWithSeparator == Len(file) > 0 /\ file[Len(file)] \in {LF, CR}

\* the bytes between the last two separators of a file that ends with a
\* separator, or from the start of the file when it has one separator
BeforeLastSeparator ==
    LET seps == Separators
        n == Len(seps)
        from == IF n = 1 THEN 1 ELSE seps[n - 1].at + Len(seps[n - 1].bytes)
    IN  SubSeq(file, from, seps[n].at - 1)

(***************************************************************************)
(* C2: a file that ends with a separator gives no empty line for the end   *)
(* of the file: the first line returned is the text before the last        *)
(* separator, as many lines are returned as the file has separators, and   *)
(* "a\n" gives the one line "a".                                           *)
(***************************************************************************)
C2_NoTrailingEmptyLine ==
    \A i \in Iters : (held(i) /\ EndsWithSeparator) =>
        /\ Len(out[i]) >= 1 => out[i][1] = decode(BeforeLastSeparator, encoding)
        /\ Len(out[i]) <= Len(Separators)
        /\ drained(i) => Len(out[i]) = Len(Separators)
        /\ (drained(i) /\ file = <<97, LF>>) => out[i] = <<Line(<<97>>)>>

\* "a\n" read to its end
C2_Witness ==
    /\ held(1) /\ drained(1) /\ last[1] = Stopped
    /\ file = <<97, LF>> /\ chunk_size = 1
    /\ out[1] = <<Line(<<97>>)>>

\* the number of lines of the file
NumLines ==
    IF file = <<>> \/ EndsWithSeparator THEN Len(Separators) ELSE Len(Separators) + 1

\* the lines of the file, counted from 1, that stand between two separators
\* with nothing between them
BlankBetween ==
    {j + 1 : j \in {j \in 1..(Len(Separators) - 1) :
                      Separators[j + 1].at = Separators[j].at + Len(Separators[j].bytes)}}

(***************************************************************************)
(* C3: an empty line between two adjacent separators is returned, as an    *)
(* empty line, at its place counted from the end of the file, and          *)
(* "a\n\na" gives "a", "", "a".                                            *)
(***************************************************************************)
C3_InteriorEmptyLines ==
    \A i \in Iters : held(i) =>
        /\ \A m \in BlankBetween :
              /\ Len(out[i]) >= NumLines + 1 - m => out[i][NumLines + 1 - m] = Line(<<>>)
              /\ drained(i) => Len(out[i]) >= NumLines + 1 - m
        /\ (drained(i) /\ file = <<97, LF, LF, 97>>)
              => out[i] = <<Line(<<97>>), Line(<<>>), Line(<<97>>)>>

\* "a\n\na" read to its end one byte at a time
C3_Witness ==
    /\ held(1) /\ drained(1) /\ last[1] = Stopped
    /\ file = <<97, LF, LF, 97>> /\ chunk_size = 1
    /\ out[1] = <<Line(<<97>>), Line(<<>>), Line(<<97>>)>>

(***************************************************************************)
(* C4: on an empty file no call of next() returns a line or raises: the    *)
(* first one signals the end and leaves the handler closed.                *)
(***************************************************************************)
C4_EmptyFile ==
    \A i \in Iters : (held(i) /\ file = <<>>) =>
        /\ out[i] = <<>>
        /\ last[i].op = "next" => (last[i] = Stopped /\ fp[i] = "closed")

\* next() was called on the iterator of an empty file
C4_Witness ==
    /\ file = <<>> /\ held(1) /\ last[1] = Stopped /\ fp[1] = "closed"
    /\ chunk_size = 1

(***************************************************************************)
(* str.encode(encoding) of a text the reader returned: the bytes that      *)
(* decode to it.                                                           *)
(***************************************************************************)
RECURSIVE encode_utf_8(_, _, _)
encode_utf_8(text, k, bytes) ==
    IF k > Len(text) THEN bytes
    ELSE IF text[k] < 128 THEN encode_utf_8(text, k + 1, Append(bytes, text[k]))
    ELSE encode_utf_8(text, k + 1,
                      bytes \o <<192 + (text[k] \div 64), 128 + (text[k] % 64)>>)

encode(text) == IF encoding = utf_8 THEN encode_utf_8(text, 1, <<>>) ELSE text

\* the lines joined by a separator, each line as its bytes
RECURSIVE join(_, _)
join(lines, sep) ==
    IF lines = <<>> THEN <<>>
    ELSE IF Len(lines) = 1 THEN encode(lines[1].text)
    ELSE encode(lines[1].text) \o sep \o join(Tail(lines), sep)

\* what was returned, put back in the order of the file and joined by sep, is
\* the file, but for one separator at its end
RoundTrip(i, sep) ==
    LET joined == join(Reverse(out[i]), sep)
    IN  file = joined \/ file = joined \o sep \/ joined = file \o sep

\* next() returned every line of the file, none failed to decode
ReturnedEveryLine(i) ==
    /\ held(i) /\ drained(i)
    /\ \A k \in 1..Len(out[i]) : out[i][k].kind = "line"

(***************************************************************************)
(* C5 as claimed: there is a line separator such that the lines returned,  *)
(* put back in the order of the file and joined by it, are the file, up to *)
(* one separator at the end.                                               *)
(***************************************************************************)
C5_RoundTripAnyFile ==
    \A i \in Iters : ReturnedEveryLine(i) =>
        \E sep \in Range(new_lines_bytes) : RoundTrip(i, sep)

(***************************************************************************)
(* C5 as amended: when every separator of the file is the same sequence    *)
(* (all "\n", all "\r\n" or all "\r"), the lines returned, put back in the *)
(* order of the file and joined by that sequence, are the file, with or    *)
(* without that one sequence at its end.                                   *)
(***************************************************************************)
C5_RoundTripOneSeparator ==
    \A i \in Iters : ReturnedEveryLine(i) =>
        \A sep \in Range(new_lines_bytes) :
            (\A k \in 1..Len(Separators) : Separators[k].bytes = sep) =>
                LET joined == join(Reverse(out[i]), sep)
                IN  file = joined \/ file = joined \o sep

\* U+00E9 "\n" "a" in UTF-8, read to its end one byte at a time
C5_Witness ==
    /\ ReturnedEveryLine(1) /\ last[1] = Stopped
    /\ file = <<195, 169, LF, 97>> /\ encoding = utf_8 /\ chunk_size = 1
    /\ out[1] = <<Line(<<97>>), Line(<<233>>)>>
    /\ join(Reverse(out[1]), <<LF>>) = file

\* what a call on a closed iterator leaves in last: next() signalled the end,
\* or a close() found the handler closed
AfterClosed == {Stopped, Call("close", "closed"), Call("owner", "closed")}

\* the state of iterator i but for its latest call
Progress(i) == <<read_position[i], read_buffer[i], out[i]>>

(***************************************************************************)
(* C6: when next() has signalled the end with every line returned, the     *)
(* closed query is true; and from then on, whatever is called, the         *)
(* iterator stays closed with nothing left, returns no line, raises        *)
(* nothing, and each next() signals the end.                               *)
(***************************************************************************)
C6_ExhaustionIsTerminal ==
    /\ [](\A i \in Iters : (held(i) /\ drained(i) /\ last[i] = Stopped) => closed(i))
    /\ [][\A i \in Iters : (held(i) /\ drained(i) /\ closed(i) /\ held(i)') =>
            /\ closed(i)' /\ drained(i)'
            /\ out'[i] = out[i]
            /\ last'[i] # last[i] => last'[i] \in AfterClosed
            /\ FileReadBackwardsIterator_next(i) => last'[i] = Stopped]_vars

\* next() signalled the end of "a\n" U+00A9 in latin-1
C6_Witness ==
    /\ held(1) /\ drained(1) /\ closed(1) /\ last[1] = Stopped
    /\ file = <<97, LF, 169>> /\ encoding = latin_1
    /\ out[1] = <<Line(<<169>>), Line(<<97>>)>>

(***************************************************************************)
(* C7: once an iterator is closed while lines remain unread, every next()  *)
(* signals the end: none raises, none returns a line, and the lines stay   *)
(* unread.                                                                 *)
(***************************************************************************)
C7_ClosedMidTraversal ==
    /\ [](\A i \in Iters : (held(i) /\ fp[i] = "closed" /\ last[i].op = "next")
                               => last[i] = Stopped)
    /\ [][\A i \in Iters : (held(i) /\ fp[i] = "closed" /\ ~drained(i) /\ held(i)') =>
            /\ fp'[i] = "closed"
            /\ Progress(i)' = Progress(i)
            /\ last'[i] # last[i] => last'[i] \in AfterClosed
            /\ FileReadBackwardsIterator_next(i) => last'[i] = Stopped]_vars

\* next() was called after the iterator of "a\na\n" was closed with one line
\* returned
C7_Witness ==
    /\ held(1) /\ fp[1] = "closed" /\ last[1] = Stopped
    /\ file = <<97, LF, 97, LF>> /\ chunk_size = 1
    /\ Len(out[1]) = 1 /\ ~drained(1)

(***************************************************************************)
(* C8: close() on an iterator whose handler is closed already, whoever     *)
(* closed it, changes nothing of the iterator, of its handler, of the      *)
(* other iterators or of the owner.                                        *)
(***************************************************************************)
C8_CloseIsIdempotent ==
    [][\A i \in Iters : (fp[i] = "closed" /\ FileReadBackwardsIterator_close(i)) =>
          /\ fp' = fp
          /\ read_position' = read_position /\ read_buffer' = read_buffer
          /\ out' = out /\ fp_refs' = fp_refs
          /\ \A j \in Iters : j # i => last'[j] = last[j]]_vars

\* close() was called on a closed iterator that has lines left to return
C8_Witness ==
    /\ held(1) /\ last[1] = Call("close", "closed") /\ fp[1] = "closed"
    /\ ~drained(1) /\ Len(out[1]) = 1

(***************************************************************************)
(* C9: the owner's close() leaves every iterator the caller still holds    *)
(* closed, whatever the registry holds (open, closed and collected         *)
(* handlers), keeps the references to the handlers that are not collected  *)
(* and touches nothing else; every iterator the caller holds is in the     *)
(* registry, and next() on an iterator the owner closed signals the end.   *)
(***************************************************************************)
C9_BulkClose ==
    /\ [](\A i \in Iters : held(i) => i \in Range(fp_refs))
    /\ [][FileReadBackwards_close =>
            /\ \A i \in Iters : held(i)' => closed(i)'
            /\ \A i \in Iters : held(i)' <=> held(i)
            /\ \A i \in Iters : Progress(i)' = Progress(i)
            /\ \A k \in 1..Len(fp_refs') : fp'[fp_refs'[k]] # "collected"]_vars
    /\ [][\A i \in Iters : (held(i) /\ last[i].op = "owner"
                             /\ FileReadBackwardsIterator_next(i))
            => (last'[i] = Stopped /\ Progress(i)' = Progress(i))]_vars

\* the owner's close() found one handler collected and the other one open, with
\* lines left to return
C9_Witness ==
    /\ fp[1] = "collected" /\ fp_refs = <<2>>
    /\ held(2) /\ last[2] = Call("owner", "open") /\ closed(2)
    /\ ~drained(2)

(***************************************************************************)
(* C10: the constructor accepts supported encodings alone: the encoding of *)
(* a constructed reader is in the supported list, a construction that      *)
(* failed opened no file and registered no handler, and no next() raises   *)
(* for an encoding that is not known.                                      *)
(***************************************************************************)
C10_UnsupportedEncodingFailsAtConstruction ==
    /\ constructed = "yes" => \E k \in 1..Len(supported_encodings) :
                                 encoding = supported_encodings[k]
    /\ constructed # "yes" => (fp_refs = <<>> /\ \A i \in Iters : fp[i] = "unopened")
    /\ \A i \in Iters : \A k \in 1..Len(out[i]) : out[i][k].kind # "LookupError"

\* the constructor was called with "ebcdic"
C10_Witness ==
    /\ constructed = "NotImplementedError"
    /\ fp_refs = <<>> /\ \A i \in Iters : fp[i] = "unopened"

\* the cursor, the pending buffer and the status of the handler of iterator i
Traversal(i) == <<read_position[i], read_buffer[i], fp[i]>>

(***************************************************************************)
(* C11: the iterators of one owner are independent.  However their next()  *)
(* calls interleave, what each one returned is the beginning of the        *)
(* reversed lines of the file, and the whole of them once it has nothing   *)
(* left; and a next() or a close() on one iterator, the next() that closes *)
(* it at the end included, changes neither the cursor, the pending buffer, *)
(* the handler status nor the results of another one.                      *)
(***************************************************************************)
C11_IndependentTraversals ==
    /\ [](\A i \in Iters : held(i) =>
            /\ IsPrefix(out[i], ReversedLines)
            /\ drained(i) => out[i] = ReversedLines)
    /\ [][\A i \in Iters :
            (FileReadBackwardsIterator_next(i) \/ FileReadBackwardsIterator_close(i)) =>
                \A j \in Iters \ {i} :
                    /\ Traversal(j)' = Traversal(j)
                    /\ out'[j] = out[j]]_vars

\* of two iterators over "\na" the first one was closed after one line and the
\* second one, still open, returned both lines
C11_Witness ==
    /\ file = <<LF, 97>>
    /\ held(1) /\ last[1] = Call("close", "open") /\ Len(out[1]) = 1 /\ ~drained(1)
    /\ held(2) /\ fp[2] = "open" /\ drained(2)
    /\ out[2] = <<Line(<<97>>), Line(<<>>)>>

(***************************************************************************)
(* C12 as claimed, in the words of the docstring of the closed property:   *)
(* the closed query of an iterator is true if its file handler is still    *)
(* opened, and false otherwise.                                            *)
(***************************************************************************)
C12_ClosedTrueWhileOpened ==
    \A i \in Iters : held(i) => (closed(i) <=> fp[i] = "open")

\* next() would return a line: the handler is open and lines are left
ReturnsLine(i) == held(i) /\ ~stop_when_closed(i) /\ ~end_of_lines(i)

\* chunk_size is such that the "\n" of a "\r\n" of the file is the first byte of
\* one chunk and its "\r" the last byte of the next
SplitCRLF ==
    /\ chunk_size > 0
    /\ \E k \in 1..Len(Separators) :
          /\ Separators[k].bytes = <<CR, LF>>
          /\ (Len(file) - Separators[k].at) % chunk_size = 0

(***************************************************************************)
(* C13: no line next() returns holds "\n" or "\r": neither the bytes it    *)
(* takes from the buffer nor the text it returns.  No more lines are       *)
(* returned than the file has, and exactly as many at the end, so that a   *)
(* "\r\n" read as "\n" in one chunk and "\r" in the next one leaves no     *)
(* "\r" at the end of the line before it and no empty line between them.   *)
(***************************************************************************)
C13_NoSeparatorInLines ==
    \A i \in Iters : held(i) =>
        /\ ReturnsLine(i) => \A k \in 1..Len(taken(i).line) :
                                 taken(i).line[k] \notin {LF, CR}
        /\ \A n \in 1..Len(out[i]) : \A k \in 1..Len(out[i][n].text) :
              out[i][n].text[k] \notin {LF, CR}
        /\ Len(out[i]) <= NumLines
        /\ drained(i) => Len(out[i]) = NumLines
        /\ (SplitCRLF /\ drained(i)) => out[i] = ReversedLines

\* U+00A9 "\r\n" "a" in latin-1 read to its end two bytes at a time: "\na", then
\* U+00A9 "\r"
C13_Witness ==
    /\ SplitCRLF /\ held(1) /\ drained(1) /\ last[1] = Stopped
    /\ file = <<169, CR, LF, 97>> /\ chunk_size = 2 /\ encoding = latin_1
    /\ out[1] = <<Line(<<97>>), Line(<<169>>)>>

\* read_size of pull_next_chunk()
ReadSize(i) == IF chunk_size < read_position[i] THEN chunk_size ELSE read_position[i]

(***************************************************************************)
(* C14: the cursor of a buffer is between 0 and the size of the file and   *)
(* no step of a traversal increases it.  A pull_next_chunk() with the      *)
(* cursor above 0 moves it down by min(chunk_size, cursor), which is at    *)
(* least 1, and puts that many bytes, those of the file from the new       *)
(* cursor to the old one, before the pending buffer; with the cursor at 0  *)
(* it changes neither the cursor nor the pending buffer.                   *)
(***************************************************************************)
C14_CursorBounds ==
    /\ [](\A i \in Iters : 0 <= read_position[i] /\ read_position[i] <= Len(file))
    /\ [][\A i \in Iters : (held(i) /\ held(i)') => read_position'[i] <= read_position[i]]_vars
    /\ [][\A i \in Iters : BufferWorkSpace_pull_next_chunk(i) =>
            IF read_position[i] > 0
            THEN /\ ReadSize(i) >= 1
                 /\ read_position'[i] = read_position[i] - ReadSize(i)
                 /\ Len(read_buffer'[i]) = Len(read_buffer[i]) + ReadSize(i)
                 /\ read_buffer'[i] =
                       SubSeq(file, read_position'[i] + 1, read_position[i])
                           \o read_buffer[i]
            ELSE /\ read_position'[i] = 0
                 /\ read_buffer'[i] = read_buffer[i]]_vars

\* a pull_next_chunk() at the start of "a\naa", read three bytes at a time: the
\* one before it read one byte
C14_Witness ==
    /\ file = <<97, LF, 97, 97>> /\ chunk_size = 3
    /\ last[1] = Call("pull_next_chunk", "nothing read")
    /\ read_position[1] = 0 /\ read_buffer[1] = file /\ out[1] = <<>>

\* what was pulled and what is left to pull: the bytes of the file before the
\* cursor, then the pending buffer
Unreturned(i) == SubSeq(file, 1, read_position[i]) \o read_buffer[i]

\* the lines returned so far, as bytes, in the order of the file
EmittedForward(i) == LET lines == Reverse(out[i])
                     IN  [k \in 1..Len(lines) |-> encode(lines[k].text)]

RECURSIVE Flatten(_)
Flatten(lines) == IF lines = <<>> THEN <<>> ELSE Head(lines) \o Flatten(Tail(lines))

\* every result so far is a line: none failed to decode
OnlyLines(i) == \A k \in 1..Len(out[i]) : out[i][k].kind = "line"

\* bytes is the lines in their order, each one followed by one separator, the
\* last one by one separator or by nothing
RECURSIVE LinesWithSeparators(_, _)
LinesWithSeparators(bytes, lines) ==
    IF lines = <<>> THEN bytes = <<>>
    ELSE /\ IsPrefix(Head(lines), bytes)
         /\ LET rest == SubSeq(bytes, Len(Head(lines)) + 1, Len(bytes))
            IN  IF Len(lines) = 1
                THEN rest = <<>> \/ rest \in Range(new_lines_bytes)
                ELSE \E sep \in Range(new_lines_bytes) :
                        /\ IsPrefix(sep, rest)
                        /\ LinesWithSeparators(SubSeq(rest, Len(sep) + 1, Len(rest)),
                                               Tail(lines))

(***************************************************************************)
(* C15 as claimed: in every state of a traversal the bytes of the file     *)
(* before the cursor, then the pending buffer, then the lines returned so  *)
(* far in the order of the file, are the file, byte for byte.              *)
(***************************************************************************)
C15_ByteConservation ==
    \A i \in Iters : (held(i) /\ OnlyLines(i)) =>
        Unreturned(i) \o Flatten(EmittedForward(i)) = file

(***************************************************************************)
(* C15 as amended: in every state of a traversal the bytes of the file     *)
(* before the cursor, then the pending buffer, are the beginning of the    *)
(* file, and the rest of the file is the lines returned so far in the      *)
(* order of the file, each one followed by one separator ("\n", "\r\n" or  *)
(* "\r"), the last one by one separator or by nothing: the bytes of these  *)
(* separators are the only ones lost, and no byte is there twice.          *)
(***************************************************************************)
C15_ByteConservationButSeparators ==
    \A i \in Iters : (held(i) /\ OnlyLines(i)) =>
        /\ IsPrefix(Unreturned(i), file)
        /\ LinesWithSeparators(SubSeq(file, Len(Unreturned(i)) + 1, Len(file)),
                               EmittedForward(i))

\* "\r\n" U+00E9 in UTF-8, pulled three bytes at a time: the last line was
\* returned, "\n" is in the pending buffer and "\r" is not pulled yet
C15_Witness ==
    /\ file = <<CR, LF, 195, 169>> /\ encoding = utf_8 /\ chunk_size = 3
    /\ last[1] = Call("return_line", "line")
    /\ out[1] = <<Line(<<233>>)>>
    /\ read_position[1] = 1 /\ read_buffer[1] = <<LF>>
    /\ Unreturned(1) \o <<195, 169>> = file

\* the bytes left to an iterator: those before the cursor and the pending buffer
Remaining(i) == read_position[i] + Len(read_buffer[i])

(***************************************************************************)
(* C16: every traversal ends.  Each turn of the loop of                    *)
(* read_until_yieldable() moves the cursor down, and the loop comes to a   *)
(* yieldable line; each next() that returns a line takes at least the      *)
(* bytes of that line, and at least one byte, from the bytes left; and an  *)
(* open iterator whose next() is called again and again comes to the       *)
(* next() that signals the end and closes the handler.  The one iterator   *)
(* of the caller is iterator 1.                                            *)
(***************************************************************************)
C16_TraversalTerminates ==
    /\ [][\A i \in Iters : read_until_yieldable_pull(i) =>
            read_position'[i] < read_position[i]]_vars
    /\ (fp[1] = "open" /\ ~has_yieldable_line(read_buffer[1], read_position[1]))
          ~> (fp[1] # "open" \/ has_yieldable_line(read_buffer[1], read_position[1]))
    /\ [][\A i \in Iters : (ReturnsLine(i) /\ FileReadBackwardsIterator_next(i)) =>
            /\ Remaining(i)' + Len(taken(i).line) <= Remaining(i)
            /\ Remaining(i)' < Remaining(i)]_vars
    /\ fp[1] = "open" ~> (last[1] = Stopped /\ closed(1))

\* "aaa" read one byte at a time: three turns of the loop for its one line, and
\* the end at the second next()
C16_Witness ==
    /\ file = <<97, 97, 97>> /\ chunk_size = 1
    /\ out[1] = <<Line(<<97, 97, 97>>)>>
    /\ last[1] = Stopped /\ closed(1) /\ Remaining(1) = 0

(***************************************************************************)
(* C17: next() closes the handler on no call but one that signals the end. *)
(* After a next() that returned a line the handler is open, also when the  *)
(* line is the first line of the file and nothing is left; a next() that   *)
(* closes the handler found every line returned and signals the end; and   *)
(* the next() that follows the last line is that call.                     *)
(***************************************************************************)
C17_ClosedOnlyAtEnd ==
    /\ [](\A i \in Iters : (held(i) /\ last[i] = Call("next", "line")) => fp[i] = "open")
    /\ [][\A i \in Iters : FileReadBackwardsIterator_next(i) =>
            /\ (fp[i] = "open" /\ fp'[i] # "open")
                  => (end_of_lines(i) /\ last'[i] = Stopped /\ out'[i] = out[i])
            /\ Len(out'[i]) > Len(out[i]) => (fp[i] = "open" /\ fp'[i] = "open")
            /\ (fp[i] = "open" /\ end_of_lines(i))
                  => (fp'[i] = "closed" /\ last'[i] = Stopped)]_vars

\* next() returned "a", the first line of "a\n" U+00A9 in latin-1, and nothing
\* is left
C17_Witness ==
    /\ file = <<97, LF, 169>> /\ encoding = latin_1
    /\ held(1) /\ drained(1) /\ last[1] = Call("next", "line")
    /\ out[1] = <<Line(<<169>>), Line(<<97>>)>>
    /\ fp[1] = "open"

\* UTF-8 with one- and two-byte forms: every byte above 127 is a lead byte with
\* a continuation byte after it, or a continuation byte with a lead byte
\* before it
WellFormedUtf8(b) ==
    \A k \in 1..Len(b) : b[k] >= 128 =>
        \/ /\ b[k] >= 194 /\ b[k] <= 223
           /\ k < Len(b) /\ b[k + 1] >= 128 /\ b[k + 1] <= 191
        \/ /\ b[k] >= 128 /\ b[k] <= 191
           /\ k > 1 /\ b[k - 1] >= 194 /\ b[k - 1] <= 223

\* the bytes are malformed for the encoding of the owner
Malformed(b) ==
    \/ encoding = ascii /\ \E k \in 1..Len(b) : b[k] >= 128
    \/ encoding = utf_8 /\ ~WellFormedUtf8(b)

(***************************************************************************)
(* C18: a next() that takes from the buffer a line whose bytes are         *)
(* malformed for the encoding raises the decoding error: the call does not *)
(* return a line, does not signal the end and does not close the handler,  *)
(* and the error is what the caller gets.                                  *)
(***************************************************************************)
C18_DecodingErrorSurfaced ==
    [][\A i \in Iters :
         (ReturnsLine(i) /\ Malformed(taken(i).line) /\ FileReadBackwardsIterator_next(i)) =>
             /\ last'[i] = Call("next", "UnicodeDecodeError")
             /\ out'[i] = Append(out[i], UnicodeDecodeError)
             /\ fp'[i] = "open"]_vars

\* the last line of "a\n" 0xA9, which is malformed in UTF-8, was asked for
C18_Witness ==
    /\ file = <<97, LF, 169>> /\ encoding = utf_8
    /\ held(1) /\ last[1] = Call("next", "UnicodeDecodeError")
    /\ out[1] = <<UnicodeDecodeError>>
    /\ fp[1] = "open"

\* the latest call on iterator i is a next() that raised the decoding error
FailedToDecode(i) == held(i) /\ last[i] = Call("next", "UnicodeDecodeError")

(***************************************************************************)
(* C19: a decoding error neither ends the traversal nor takes it back.     *)
(* The next() that raises it leaves the handler open and takes the bytes   *)
(* of its line, at least one byte, from the bytes left, so that what was   *)
(* returned or raised so far is still the beginning of the reversed lines; *)
(* the next() after it gives the line before the failed one in the file,   *)
(* or that line's own decoding error, and signals the end when the failed  *)
(* line is the first line of the file.                                     *)
(***************************************************************************)
C19_DecodingErrorSkipsLine ==
    /\ [](\A i \in Iters : FailedToDecode(i) =>
            /\ fp[i] = "open"
            /\ IsPrefix(out[i], ReversedLines)
            /\ out[i][Len(out[i])] = UnicodeDecodeError)
    /\ [][\A i \in Iters : (FileReadBackwardsIterator_next(i) /\ FailedToDecode(i)') =>
            /\ Remaining(i)' + Len(taken(i).line) <= Remaining(i)
            /\ Remaining(i)' < Remaining(i)
            /\ Malformed(taken(i).line)]_vars
    /\ [][\A i \in Iters : (FailedToDecode(i) /\ FileReadBackwardsIterator_next(i)) =>
            IF Len(out[i]) < NumLines
            THEN /\ out'[i] = Append(out[i], ReversedLines[Len(out[i]) + 1])
                 /\ fp'[i] = "open"
            ELSE /\ last'[i] = Stopped
                 /\ out'[i] = out[i]]_vars

\* "a\n" 0xA9 in ascii: the next() after the one that failed on the last line
\* returned "a"
C19_Witness ==
    /\ file = <<97, LF, 169>> /\ encoding = ascii
    /\ held(1) /\ last[1] = Call("next", "line") /\ fp[1] = "open"
    /\ out[1] = <<UnicodeDecodeError, Line(<<97>>)>>

\* the owner's close(), or its __exit__, found the handler of iterator i
ClosedByOwner(i) == held(i) /\ last[i].op = "owner"

(***************************************************************************)
(* C20: the owner's close() does not end the owner.  After it, and after   *)
(* __exit__, __iter__ can still be called; every __iter__ gives one new    *)
(* iterator with an open handler, its cursor at the length of the file,    *)
(* an empty buffer and nothing returned, and touches no other iterator; an *)
(* iterator spawned after a close() returns the reversed lines of the      *)
(* file, all of them when nothing is left.  The registry holds no handler  *)
(* open or alive: a handler it refers to is closed by its iterator's       *)
(* close() and collected with its iterator, the reference staying behind.  *)
(***************************************************************************)
C20_BulkCloseIsNotTerminal ==
    /\ [](\A i \in Iters : (ClosedByOwner(i) /\ \E j \in Iters : fp[j] = "unopened")
              => ENABLED FileReadBackwards_iter)
    /\ [][FileReadBackwards_iter =>
            \E i \in Iters :
                /\ fp[i] = "unopened" /\ fp'[i] = "open"
                /\ read_position'[i] = Len(file)
                /\ read_buffer'[i] = <<>> /\ out'[i] = <<>>
                /\ fp_refs' = Append(fp_refs, i)
                /\ \A j \in Iters \ {i} : Traversal(j)' = Traversal(j) /\ out'[j] = out[j]]_vars
    /\ [](\A i, j \in Iters : (ClosedByOwner(i) /\ fp[j] = "open") =>
            /\ IsPrefix(out[j], ReversedLines)
            /\ drained(j) => out[j] = ReversedLines)
    /\ [][\A i \in Iters : (i \in Range(fp_refs) /\ FileReadBackwardsIterator_close(i))
            => (fp'[i] = "closed" /\ fp_refs' = fp_refs)]_vars
    /\ [][\A i \in Iters : (i \in Range(fp_refs) /\ Collect(i))
            => (fp'[i] = "collected" /\ fp_refs' = fp_refs)]_vars

\* the owner's close() closed the first iterator of "\na" after one line; the
\* iterator spawned after it returned both lines and is still open
C20_Witness ==
    /\ file = <<LF, 97>>
    /\ ClosedByOwner(1) /\ last[1] = Call("owner", "open") /\ Len(out[1]) = 1
    /\ fp[2] = "open" /\ drained(2) /\ Len(out[2]) = 2
    /\ out[2] = ReversedLines /\ fp_refs = <<1, 2>>

====
